---------------------------- MODULE Spec2Model ----------------------------
(***************************************************************************)
(* The "hardlinks" graph driver (package hardlinks) and its fallback       *)
(* wrapper: layer directories home/<id>/{root,mnt,tmproot*}, the           *)
(* reference-counted table of active mounts guarded by the driver mutex,   *)
(* and ApplyDiff with its temp-directory-then-rename commit.               *)
(*                                                                         *)
(* Every driver method is a sequence of steps, one per system call or      *)
(* table access, run by one of the callers in Procs.  Spec runs the calls  *)
(* one after the other; SpecConc lets the callers interleave step by step. *)
(***************************************************************************)
EXTENDS Naturals, Sequences, FiniteSets

\* ------------------------------------------------------------- bounds ----
\* The number of calls made to the driver in one run.
MaxCalls == 4
\* The same, for callers that run concurrently.
MaxConcCalls == 2

Ids == {"A", "B"}
Files == {"f"}
Procs == {"p1", "p2"}
Labels == {"", "s0"}
\* One inode for every directory entry there can be, and one to spare.
Inodes == 1..(Cardinality(Files) * (Cardinality(Ids) + Cardinality(Procs)) + 1)

\* A diff stream: the names it writes and the names it whites out.
Diffs == { [add |-> {"f"}, del |-> {}], [add |-> {}, del |-> {"f"}] }
NoDiff == [add |-> {}, del |-> {}]

VARIABLES
  serial,   \* TRUE: the caller serializes the calls (one call at a time)
  dirs,     \* dirs[id]: home/<id>/ exists
  root,     \* root[id]: home/<id>/root, [exists, files: set of <<name, inode>>]
  mnt,      \* mnt[id]: home/<id>/mnt exists
  tmp,      \* tmp[p]: the tmproot directory of p's ApplyDiff, under home/<id>/
  mounts,   \* mounts[id]: the bind mounts stacked on home/<id>/mnt (their options)
  active,   \* Driver.active: id -> ActiveMount
  lock,     \* Driver.Mutex: its holder, or NoProc
  pc,       \* pc[p]: where caller p stands
  call,     \* call[p]: the arguments and locals of p's call
  snap,     \* snap[p]: what p's call found when it started (serialized calls only)
  lastRet,  \* what the call that returned last returned
  hist,     \* hist[id]: the Get/Put history of id
  calls     \* the number of calls made so far

vars == <<serial, dirs, root, mnt, tmp, mounts, active, lock, pc, call, snap,
          lastRet, hist, calls>>
fsVars == <<dirs, root, mnt, tmp, mounts>>

\* -------------------------------------------------------------- values ---
NoProc == "none"
NoDir == [exists |-> FALSE, files |-> {}]
EmptyDir == [exists |-> TRUE, files |-> {}]

\* Driver.home, as path components.
Home == <<"home">>

Join(a, b) == a \o b

\* ErrApplyDiffFallback, nil, and any other error.
ErrApplyDiffFallback == "ErrApplyDiffFallback"
Nil == "nil"
Err == "error"

\* ActiveMount; present = FALSE is the nil entry of the map.
NoRec == [present |-> FALSE, count |-> 0, path |-> << >>, mounted |-> FALSE]

NoCall == [op |-> "none", id |-> "", parent |-> "", diff |-> NoDiff, label |-> "",
           done |-> {}, size |-> 0, custom |-> 0, customErr |-> "none",
           step |-> "none", sys |-> "none", hadDir |-> FALSE, overlap |-> FALSE,
           afterApply |-> FALSE]
NoSnap == [taken |-> FALSE, dir |-> FALSE, root |-> NoDir, mnt |-> FALSE,
           active |-> [i \in Ids |-> NoRec]]
NoRet == [proc |-> NoProc, op |-> "none", id |-> "", parent |-> "", step |-> "none",
          err |-> Nil, path |-> << >>, size |-> 0, sys |-> "none",
          custom |-> 0, generic |-> 0, cErr |-> "none", cSize |-> 0,
          gErr |-> "none", gSize |-> 0, hadDir |-> FALSE, overlap |-> FALSE,
          afterApply |-> FALSE]
NoHist == [gets |-> 0, bal |-> 0, over |-> FALSE, rebal |-> FALSE,
           unm |-> 0, wasMounted |-> FALSE, held |-> 0]

\* ------------------------------------------------------------ the paths --
\* Driver.dir
dir(id) == Join(Home, id)

RootDir(id) == Join(dir(<<id>>), <<"root">>)
MntDir(id) == Join(dir(<<id>>), <<"mnt">>)

\* os.Stat / os.Lstat of a path: whether it names something that exists.
Stat(path) ==
  IF Len(path) <= Len(Home)
  THEN path = SubSeq(Home, 1, Len(path))
  ELSE /\ SubSeq(path, 1, Len(Home)) = Home
       /\ LET rest == SubSeq(path, Len(Home) + 1, Len(path)) IN
          /\ rest[1] \in Ids
          /\ dirs[rest[1]]
          /\ \/ Len(rest) = 1
             \/ Len(rest) = 2 /\ rest[2] = "root" /\ root[rest[1]].exists
             \/ Len(rest) = 2 /\ rest[2] = "mnt" /\ mnt[rest[1]]

\* Driver.Exists
Exists(id) == Stat(dir(id))

\* ------------------------------------------------------- the file system -
Names(d) == { e[1] : e \in d.files }
InodeOf(d, f) == (CHOOSE e \in d.files : e[1] = f)[2]

UsedInodes ==
  UNION ({ { e[2] : e \in root[i].files } : i \in Ids }
         \cup { { e[2] : e \in tmp[p].files } : p \in Procs })

\* The inode a new file gets: the lowest one no directory entry refers to.
FreshInode == CHOOSE n \in Inodes : n \notin UsedInodes /\ \A m \in Inodes : m < n => m \in UsedInodes

\* link(2) of src/f to dst/f: dst gains an entry for f with src's inode.
Hardlink(src, dst, f) ==
  [dst EXCEPT !.files = @ \cup { <<f, InodeOf(src, f)>> }]

\* The entries of d with the diff applied: the whiteouts, then
\* the written files, each a new file (never a write in place).
ApplyLayer(d, diff) ==
  LET kept == { e \in d.files : e[1] \notin diff.del /\ e[1] \notin diff.add }
  IN [d EXCEPT !.files = kept \cup { <<f, FreshInode>> : f \in diff.add }]

\* An extraction that stopped after the whiteouts, before the writes.
ApplyLayerPartly(d, diff) ==
  [d EXCEPT !.files = { e \in @ : e[1] \notin diff.del }]

DiffSize(diff) == Cardinality(diff.add)


\* ------------------------------------------------------------ the state --
\* What an earlier run of the driver left under home: nothing; a base layer A
\* whose root holds a file; that and its child B, as Create(B, A) leaves it.
Layouts ==
  { [dirs |-> [i \in Ids |-> FALSE], root |-> [i \in Ids |-> NoDir],
     mnt |-> [i \in Ids |-> FALSE]],
    [dirs |-> [i \in Ids |-> i = "A"],
     root |-> [i \in Ids |-> IF i = "A" THEN [exists |-> TRUE, files |-> {<<"f", 1>>}]
                                        ELSE NoDir],
     mnt |-> [i \in Ids |-> FALSE]],
    [dirs |-> [i \in Ids |-> TRUE],
     root |-> [i \in Ids |-> [exists |-> TRUE, files |-> {<<"f", 1>>}]],
     mnt |-> [i \in Ids |-> i = "B"]] }

InitCommon ==
  /\ \E l \in Layouts : dirs = l.dirs /\ root = l.root /\ mnt = l.mnt
  /\ calls = 0
  /\ tmp = [p \in Procs |-> NoDir]
  /\ mounts = [i \in Ids |-> << >>]
  /\ active = [i \in Ids |-> NoRec]
  /\ lock = NoProc
  /\ pc = [p \in Procs |-> "idle"]
  /\ call = [p \in Procs |-> NoCall]
  /\ snap = [p \in Procs |-> NoSnap]
  /\ lastRet = NoRet
  /\ hist = [i \in Ids |-> NoHist]

\* Init: the home directory as found, and an empty table of active mounts.
Init == serial = TRUE /\ InitCommon
InitConc == serial = FALSE /\ InitCommon

\* A caller starts a call when it is in none; serialized callers wait for
\* every other call to have returned.
CanCall(p) ==
  /\ pc[p] = "idle"
  /\ serial => \A q \in Procs : pc[q] = "idle"

Snapshot(id) ==
  IF serial
  THEN [taken |-> TRUE, dir |-> dirs[id], root |-> root[id], mnt |-> mnt[id],
        active |-> active]
  ELSE NoSnap

\* Two calls on one layer id overlap when one is a Get and the other creates,
\* removes or rewrites the layer.
Lifecycle == {"Create", "Remove", "ApplyDiff"}
Overlaps(c, d) ==
  /\ c.id = d.id
  /\ \/ c.op = "Get" /\ d.op \in Lifecycle
     \/ d.op = "Get" /\ c.op \in Lifecycle

\* The call that returned last was a Driver.ApplyDiff of id that returned nil.
AfterApply(id) ==
  lastRet.op = "ApplyDiff" /\ lastRet.id = id /\ lastRet.cErr = Nil

Begin(p, first, c) ==
  /\ CanCall(p)
  /\ calls < (IF serial THEN MaxCalls ELSE MaxConcCalls)
  /\ calls' = calls + 1
  /\ pc' = [pc EXCEPT ![p] = first]
  /\ call' = [q \in Procs |->
                IF q = p
                THEN [c EXCEPT !.hadDir = dirs[c.id],
                               !.afterApply = AfterApply(c.id),
                               !.overlap = \E r \in Procs \ {p} : Overlaps(c, call[r])]
                ELSE [call[q] EXCEPT !.overlap = @ \/ Overlaps(c, call[q])]]
  /\ snap' = [snap EXCEPT ![p] = Snapshot(c.id)]
  /\ lastRet' = NoRet

Goto(p, next) ==
  /\ pc' = [pc EXCEPT ![p] = next]
  /\ UNCHANGED <<snap, lastRet, calls>>

\* What the call of p returns from step `step`, whose system call ended `sys`.
RetOf(p, step, err, path, size, sys) ==
  [proc |-> p, op |-> call[p].op, id |-> call[p].id, parent |-> call[p].parent,
   step |-> step, err |-> err, path |-> path, size |-> size, sys |-> sys,
   custom |-> call[p].custom, generic |-> 0,
   cErr |-> call[p].customErr, cSize |-> call[p].size,
   gErr |-> "none", gSize |-> 0,
   hadDir |-> call[p].hadDir, overlap |-> call[p].overlap,
   afterApply |-> call[p].afterApply]

Finish(p, r) ==
  /\ pc' = [pc EXCEPT ![p] = "idle"]
  /\ call' = [call EXCEPT ![p] = NoCall]
  /\ snap' = [snap EXCEPT ![p] = NoSnap]
  /\ lastRet' = r
  /\ UNCHANGED calls

Return(p, step, err, path, size, sys) == Finish(p, RetOf(p, step, err, path, size, sys))

\* ------------------------------------------------------- idtools, os -----
\* idtools.MkdirAs: mkdir (an existing directory is accepted), then chown.
MkdirAsOutcomes(exists) ==
  IF exists THEN {"ok", "chown_failed"} ELSE {"ok", "mkdir_failed", "chown_failed"}

\* A removal that frees the inodes of the files it unlinks: every other entry
\* for one of them goes as well.
RemoveAllDirFreeingInodes(id) ==
  /\ root' = [j \in Ids |->
                IF j = id THEN NoDir
                ELSE [root[j] EXCEPT !.files =
                        { e \in @ : e[2] \notin { x[2] : x \in root[id].files } }]]
  /\ tmp' = [q \in Procs |-> IF call[q].id = id THEN NoDir ELSE tmp[q]]
  /\ IF mounts[id] = << >>
     THEN /\ dirs' = [dirs EXCEPT ![id] = FALSE]
          /\ mnt' = [mnt EXCEPT ![id] = FALSE]
     ELSE UNCHANGED <<dirs, mnt>>

\* os.RemoveAll(home/<id>): everything under it goes; a live mount point
\* cannot be removed (EBUSY), and then neither can the directory holding it.
RemoveAllDir(id) ==
  /\ root' = [root EXCEPT ![id] = NoDir]
  /\ tmp' = [q \in Procs |-> IF call[q].id = id THEN NoDir ELSE tmp[q]]
  /\ IF mounts[id] = << >>
     THEN /\ dirs' = [dirs EXCEPT ![id] = FALSE]
          /\ mnt' = [mnt EXCEPT ![id] = FALSE]
     ELSE UNCHANGED <<dirs, mnt>>

\* A removal that reports a directory that is not there.
RemoveAllErrNotExist(id) == IF mounts[id] = << >> /\ dirs[id] THEN Nil ELSE Err

\* The error of os.RemoveAll, IsNotExist let through.
RemoveAllErr(id) == IF mounts[id] = << >> THEN Nil ELSE Err

\* syscall.Unmount of home/<id>/mnt: EINVAL when nothing is mounted there,
\* else it detaches the topmost mount or fails (EBUSY).
UnmountOutcomes(id) == IF mounts[id] = << >> THEN {"einval"} ELSE {"ok", "ebusy"}

Unmounted(id, o) ==
  IF o = "ok" THEN [mounts EXCEPT ![id] = SubSeq(@, 1, Len(@) - 1)] ELSE mounts

UnmountErr(o) == IF o = "ok" THEN Nil ELSE Err

\* label.FormatMountLabel("bind", mountLabel)
FormatMountLabel(label) == IF label = "" THEN <<"bind">> ELSE <<"bind", label>>

\* mount.Mount(rootDir, mntDir, "bind", opts): needs both directories.
MountOutcomes(id) ==
  IF root[id].exists /\ mnt[id]
  THEN {"ok", "failed"} ELSE {"failed"}

\* ------------------------------------------------------------- Create ----
CallCreate(p, id, parent) ==
  /\ Begin(p, "c_home", [NoCall EXCEPT !.op = "Create", !.id = id, !.parent = parent])
  /\ UNCHANGED <<serial, fsVars, active, lock, hist>>

\* The failure return of Create once the deferred clean-up is registered.
CreateFail(p, step) ==
  /\ RemoveAllDir(call[p].id)
  /\ Return(p, step, Err, << >>, 0, "failed")
  /\ UNCHANGED <<serial, mounts, active, lock, hist>>

\* GetRootUIDGID and MkdirAllAs of the home directory.
CreateHome(p) ==
  /\ pc[p] = "c_home"
  /\ \E o \in {"ok", "failed"} :
       /\ IF o = "ok"
          THEN Goto(p, "c_mkdir") /\ UNCHANGED call
          ELSE Return(p, "c_home", Err, << >>, 0, o)
  /\ UNCHANGED <<serial, fsVars, active, lock, hist>>

\* MkdirAs(dir); the clean-up is deferred only after it.
CreateMkdir(p) ==
  /\ pc[p] = "c_mkdir"
  /\ LET id == call[p].id IN
     \E o \in MkdirAsOutcomes(dirs[id]) :
       /\ dirs' = [dirs EXCEPT ![id] = (o # "mkdir_failed") \/ @]
       /\ IF o = "ok"
          THEN /\ Goto(p, IF call[p].parent = "" THEN "c_baseroot" ELSE "c_lstat_parent")
               /\ UNCHANGED call
          ELSE Return(p, "c_mkdir", Err, << >>, 0, o)
  /\ UNCHANGED <<serial, root, mnt, tmp, mounts, active, lock, hist>>

\* parent == "": MkdirAs(dir/root), return nil.
CreateBaseRoot(p) ==
  /\ pc[p] = "c_baseroot"
  /\ LET id == call[p].id IN
     \E o \in {"ok", "failed"} :
       IF o = "ok" /\ dirs[id]
       THEN /\ root' = [root EXCEPT ![id] = IF @.exists THEN @ ELSE EmptyDir]
            /\ Return(p, "c_baseroot", Nil, << >>, 0, "ok")
            /\ UNCHANGED <<serial, dirs, mnt, tmp, mounts, active, lock, hist>>
       ELSE CreateFail(p, "c_baseroot")

\* os.Lstat(parentDir)
CreateLstatParent(p) ==
  /\ pc[p] = "c_lstat_parent"
  /\ IF Stat(dir(<<call[p].parent>>))
     THEN /\ Goto(p, "c_lstat_parentroot")
          /\ UNCHANGED <<serial, fsVars, active, lock, hist, call>>
     ELSE CreateFail(p, "c_lstat_parent")

\* os.Lstat(parentDirRoot)
CreateLstatParentRoot(p) ==
  /\ pc[p] = "c_lstat_parentroot"
  /\ IF Stat(RootDir(call[p].parent))
     THEN /\ Goto(p, "c_mkroot")
          /\ UNCHANGED <<serial, fsVars, active, lock, hist, call>>
     ELSE CreateFail(p, "c_lstat_parentroot")

\* MkdirAs(dir/root)
CreateMkRoot(p) ==
  /\ pc[p] = "c_mkroot"
  /\ LET id == call[p].id IN
     \E o \in {"ok", "failed"} :
       IF o = "ok" /\ dirs[id]
       THEN /\ root' = [root EXCEPT ![id] = IF @.exists THEN @ ELSE EmptyDir]
            /\ Goto(p, "c_mkmnt")
            /\ UNCHANGED <<serial, dirs, mnt, tmp, mounts, active, lock, hist, call>>
       ELSE CreateFail(p, "c_mkroot")

\* MkdirAs(dir/mnt)
CreateMkMnt(p) ==
  /\ pc[p] = "c_mkmnt"
  /\ LET id == call[p].id IN
     \E o \in {"ok", "failed"} :
       IF o = "ok" /\ dirs[id]
       THEN /\ mnt' = [mnt EXCEPT ![id] = TRUE]
            /\ Goto(p, "c_copy")
            /\ UNCHANGED <<serial, dirs, root, tmp, mounts, active, lock, hist, call>>
       ELSE CreateFail(p, "c_mkmnt")

\* copyDir(src, dst, copyHardlink), one directory entry a step: what is left
\* to link, and whether the next link can succeed.
CopyTodo(src, done) == Names(src) \ done

\* copyDir(parentDirRoot, childDirRoot, copyHardlink), and Create's return.
CreateCopy(p) ==
  /\ pc[p] = "c_copy"
  /\ LET id == call[p].id
         src == root[call[p].parent]
         dst == root[id]
     IN \E o \in {"ok", "failed"} :
          IF o = "ok" /\ src.exists /\ dst.exists
          THEN IF CopyTodo(src, call[p].done) = {}
               THEN /\ Return(p, "c_copy", Nil, << >>, 0, "ok")
                    /\ UNCHANGED <<serial, fsVars, active, lock, hist>>
               ELSE \E f \in CopyTodo(src, call[p].done) :
                      IF f \in Names(dst)
                      THEN CreateFail(p, "c_copy")
                      ELSE /\ root' = [root EXCEPT ![id] = Hardlink(src, dst, f)]
                           /\ call' = [call EXCEPT ![p].done = @ \cup {f}]
                           /\ Goto(p, "c_copy")
                           /\ UNCHANGED <<serial, dirs, mnt, tmp, mounts, active,
                                          lock, hist>>
          ELSE CreateFail(p, "c_copy")

\* ------------------------------------------------------------- Remove ----
CallRemove(p, id) ==
  /\ Begin(p, "r_removeall", [NoCall EXCEPT !.op = "Remove", !.id = id])
  /\ UNCHANGED <<serial, fsVars, active, lock, hist>>

\* os.RemoveAll(d.dir(id)); an absent directory is no error.
Remove(p) ==
  /\ pc[p] = "r_removeall"
  /\ RemoveAllDir(call[p].id)
  /\ Return(p, "r_removeall", RemoveAllErr(call[p].id), << >>, 0, "done")
  /\ UNCHANGED <<serial, mounts, active, lock, hist>>

\* ---------------------------------------------------- the Get/Put history
\* A successful Get(id): one more outstanding acquisition.  rebal: the Gets
\* resumed after the Puts had caught up with them.
HistGet(h, mountedNow) ==
  IF h.over THEN h
  ELSE [h EXCEPT !.gets = @ + 1, !.bal = @ + 1,
                 !.rebal = @ \/ (h.gets > 0 /\ h.bal = 0),
                 !.wasMounted = @ \/ mountedNow]

\* A Put(id) that issued `unmounts` unmount system calls.  over: there were
\* more Puts than Gets.
HistPut(h, unmounts) ==
  IF h.over THEN h
  ELSE IF h.bal = 0 THEN [NoHist EXCEPT !.over = TRUE]
  ELSE [h EXCEPT !.bal = @ - 1, !.unm = @ + unmounts]

\* held: the successful Gets less the Puts of id since its record was stored.
Held(h, n) == [h EXCEPT !.held = n]

\* ---------------------------------------------------------------- Get ----
CallGet(p, id, label) ==
  /\ Begin(p, "g_lock", [NoCall EXCEPT !.op = "Get", !.id = id, !.label = label])
  /\ UNCHANGED <<serial, fsVars, active, lock, hist>>

\* A Lock that does not wait for the holder.
LockNoWait(p) == lock' = p

\* A return that leaves the mutex held.
UnlockForgotten(p) == UNCHANGED lock

\* d.Lock()
Lock(p) ==
  /\ lock = NoProc
  /\ lock' = p

\* defer d.Unlock()
Unlock(p) == lock' = NoProc

GetLock(p) ==
  /\ pc[p] = "g_lock"
  /\ Lock(p)
  /\ Goto(p, "g_lookup")
  /\ UNCHANGED <<serial, fsVars, active, hist, call>>

\* A repeated Get that returns the path and leaves the count as it was.
GetLookupNoIncrement(p) ==
  /\ pc[p] = "g_lookup"
  /\ LET id == call[p].id IN
     IF active[id].present
     THEN /\ hist' = [hist EXCEPT ![id] = Held(HistGet(@, FALSE), @.held + 1)]
          /\ Unlock(p)
          /\ Return(p, "g_lookup", Nil, active[id].path, 0, "none")
     ELSE /\ Goto(p, "g_statdir")
          /\ UNCHANGED <<hist, lock, call>>
  /\ UNCHANGED <<serial, fsVars, active>>

\* Get without the look at the table: every Get checks and mounts anew.
GetLookupNoCache(p) ==
  /\ pc[p] = "g_lookup"
  /\ Goto(p, "g_statdir")
  /\ UNCHANGED <<serial, fsVars, active, hist, lock, call>>

\* mntinfo := d.active[id]; a record: count++, return its path.
GetLookup(p) ==
  /\ pc[p] = "g_lookup"
  /\ LET id == call[p].id IN
     IF active[id].present
     THEN /\ active' = [active EXCEPT ![id].count = @ + 1]
          /\ hist' = [hist EXCEPT ![id] = Held(HistGet(@, FALSE), @.held + 1)]
          /\ Unlock(p)
          /\ Return(p, "g_lookup", Nil, active[id].path, 0, "none")
     ELSE /\ Goto(p, "g_statdir")
          /\ UNCHANGED <<active, hist, lock, call>>
  /\ UNCHANGED <<serial, fsVars>>

\* An error return of Get: the table is as it was.
GetFail(p, step) ==
  /\ Unlock(p)
  /\ Return(p, step, Err, << >>, 0, "failed")
  /\ UNCHANGED <<active, hist>>

\* os.Stat(dir)
GetStatDir(p) ==
  /\ pc[p] = "g_statdir"
  /\ IF Stat(dir(<<call[p].id>>))
     THEN Goto(p, "g_statroot") /\ UNCHANGED <<active, hist, lock, call>>
     ELSE GetFail(p, "g_statdir")
  /\ UNCHANGED <<serial, fsVars>>

\* Get without the check of rootDir.
GetStatRootSkipped(p) ==
  /\ pc[p] = "g_statroot"
  /\ Goto(p, "g_statmnt")
  /\ UNCHANGED <<serial, fsVars, active, hist, lock, call>>

\* os.Stat(rootDir)
GetStatRoot(p) ==
  /\ pc[p] = "g_statroot"
  /\ IF Stat(RootDir(call[p].id))
     THEN Goto(p, "g_statmnt") /\ UNCHANGED <<active, hist, lock, call>>
     ELSE GetFail(p, "g_statroot")
  /\ UNCHANGED <<serial, fsVars>>

\* Get without the look at mntDir: every layer is bind-mounted.
GetStatMntSkipped(p) ==
  /\ pc[p] = "g_statmnt"
  /\ Goto(p, "g_mount")
  /\ UNCHANGED <<serial, fsVars, active, hist, lock, call>>

\* os.Stat(mntDir): without mnt/ the record is the root directory, unmounted.
GetStatMnt(p) ==
  /\ pc[p] = "g_statmnt"
  /\ LET id == call[p].id IN
     IF Stat(MntDir(id))
     THEN Goto(p, "g_mount") /\ UNCHANGED <<active, hist, lock, call>>
     ELSE /\ active' = [active EXCEPT ![id] =
                          [present |-> TRUE, count |-> 1, path |-> RootDir(id),
                           mounted |-> FALSE]]
          /\ hist' = [hist EXCEPT ![id] = Held(HistGet(@, FALSE), 1)]
          /\ Unlock(p)
          /\ Return(p, "g_statmnt", Nil, RootDir(id), 0, "none")
  /\ UNCHANGED <<serial, fsVars>>

\* The record stored before the mount is known to have succeeded.
ActiveAfterMountAlways(id, o) ==
  [active EXCEPT ![id] = [present |-> TRUE, count |-> 1, path |-> MntDir(id),
                          mounted |-> TRUE]]

\* The table after mount.Mount: the record is stored only once it succeeded.
ActiveAfterMount(id, o) ==
  IF o = "ok"
  THEN [active EXCEPT ![id] = [present |-> TRUE, count |-> 1, path |-> MntDir(id),
                               mounted |-> TRUE]]
  ELSE active

\* mount.Mount(rootDir, mntDir, "bind", mountOpts)
GetMount(p) ==
  /\ pc[p] = "g_mount"
  /\ LET id == call[p].id IN
     \E o \in MountOutcomes(id) :
       /\ mounts' = [mounts EXCEPT ![id] =
                       IF o = "ok" THEN Append(@, FormatMountLabel(call[p].label)) ELSE @]
       /\ active' = ActiveAfterMount(id, o)
       /\ hist' = [hist EXCEPT ![id] = IF o = "ok" THEN Held(HistGet(@, TRUE), 1) ELSE @]
       /\ Unlock(p)
       /\ IF o = "ok"
          THEN Return(p, "g_mount", Nil, MntDir(id), 0, o)
          ELSE Return(p, "g_mount", Err, << >>, 0, o)
  /\ UNCHANGED <<serial, dirs, root, mnt, tmp>>

\* ---------------------------------------------------------------- Put ----
CallPut(p, id) ==
  /\ Begin(p, "p_lock", [NoCall EXCEPT !.op = "Put", !.id = id])
  /\ UNCHANGED <<serial, fsVars, active, lock, hist>>

PutLock(p) ==
  /\ pc[p] = "p_lock"
  /\ Lock(p)
  /\ Goto(p, "p_lookup")
  /\ UNCHANGED <<serial, fsVars, active, hist, call>>

\* The test off by one: a count of zero keeps the record.
StillActiveOffByOne(count) == count >= 0

\* mntinfo.count > 0
StillActive(count) == count > 0

\* mntinfo := d.active[id]; mntinfo.count--; still positive: return nil.
PutLookup(p) ==
  /\ pc[p] = "p_lookup"
  /\ LET id == call[p].id IN
     IF ~active[id].present
     THEN /\ Goto(p, "p_exists")
          /\ UNCHANGED <<active, hist, lock, call>>
     ELSE /\ active' = [active EXCEPT ![id].count = @ - 1]
          /\ IF StillActive(active[id].count - 1)
             THEN /\ hist' = [hist EXCEPT ![id] = Held(HistPut(@, 0), @.held - 1)]
                  /\ Unlock(p)
                  /\ Return(p, "p_lookup", Nil, << >>, 0, "none")
             ELSE /\ Goto(p, "p_release")
                  /\ UNCHANGED <<hist, lock, call>>
  /\ UNCHANGED <<serial, fsVars>>

\* No record: d.Exists(id)
PutExists(p) ==
  /\ pc[p] = "p_exists"
  /\ IF Exists(<<call[p].id>>)
     THEN Goto(p, "p_exists_mnt") /\ UNCHANGED <<lock, call, hist>>
     ELSE /\ hist' = [hist EXCEPT ![call[p].id] = HistPut(@, 0)]
          /\ Unlock(p)
          /\ Return(p, "p_exists", Nil, << >>, 0, "none")
  /\ UNCHANGED <<serial, fsVars, active>>

\* No record: d.Exists(mntDir), then syscall.Unmount(mntDir, 0), its error
\* only logged.
PutExistsMnt(p) ==
  /\ pc[p] = "p_exists_mnt"
  /\ LET id == call[p].id IN
     IF Exists(MntDir(id))
     THEN \E o \in UnmountOutcomes(id) :
            /\ mounts' = Unmounted(id, o)
            /\ hist' = [hist EXCEPT ![id] = HistPut(@, 1)]
            /\ Return(p, "p_exists_mnt", Nil, << >>, 0, o)
     ELSE /\ hist' = [hist EXCEPT ![id] = HistPut(@, 0)]
          /\ Return(p, "p_exists_mnt", Nil, << >>, 0, "none")
          /\ UNCHANGED mounts
  /\ Unlock(p)
  /\ UNCHANGED <<serial, dirs, root, mnt, tmp, active>>

\* What the final release returns after syscall.Unmount: its error.
PutReleaseErr(o) == UnmountErr(o)

\* A final release that leaves the record in the table.
RecordKept(id) == active

\* defer delete(d.active, id)
Deleted(id) == [active EXCEPT ![id] = NoRec]

\* The count reached zero: unmount a mounted path, delete the record.
PutRelease(p) ==
  /\ pc[p] = "p_release"
  /\ LET id == call[p].id IN
     IF active[id].mounted
     THEN \E o \in UnmountOutcomes(id) :
            /\ mounts' = Unmounted(id, o)
            /\ hist' = [hist EXCEPT ![id] = Held(HistPut(@, 1), @.held - 1)]
            /\ Return(p, "p_release", PutReleaseErr(o), << >>, 0, o)
     ELSE /\ hist' = [hist EXCEPT ![id] = Held(HistPut(@, 0), @.held - 1)]
          /\ Return(p, "p_release", Nil, << >>, 0, "none")
          /\ UNCHANGED mounts
  /\ active' = Deleted(call[p].id)
  /\ Unlock(p)
  /\ UNCHANGED <<serial, dirs, root, mnt, tmp>>

\* ---------------------------------------------------------- ApplyDiff ----
\* naiveDiffDriverWithApply.ApplyDiff: b, err := d.applyDiff.ApplyDiff(...)
CallApplyDiff(p, id, parent, diff) ==
  /\ Begin(p, "a_parent", [NoCall EXCEPT !.op = "ApplyDiff", !.id = id,
                                         !.parent = parent, !.diff = diff,
                                         !.custom = 1])
  /\ UNCHANGED <<serial, fsVars, active, lock, hist>>

\* Driver.ApplyDiff returns (size, err) to the wrapper from step `step`.
CustomReturn(p, step, err, size, sys) ==
  /\ pc' = [pc EXCEPT ![p] = "w_check"]
  /\ call' = [call EXCEPT ![p].customErr = err, ![p].size = size,
                          ![p].step = step, ![p].sys = sys]
  /\ UNCHANGED <<snap, lastRet, calls>>

\* The check of the parent's root left out.
NeedsFallbackNoStat(parent) == parent = ""

\* parent == "" or no parent root: ErrApplyDiffFallback.
NeedsFallback(parent) == parent = "" \/ ~Stat(RootDir(parent))

\* The checks of Driver.ApplyDiff.
ApplyDiffParent(p) ==
  /\ pc[p] = "a_parent"
  /\ IF NeedsFallback(call[p].parent)
     THEN CustomReturn(p, "a_parent", ErrApplyDiffFallback, 0, "none")
     ELSE /\ Goto(p, "a_tempdir")
          /\ UNCHANGED call
  /\ UNCHANGED <<serial, fsVars, active, lock, hist>>

\* ioutil.TempDir(dir, "tmproot"); its failure returns before the defer.
ApplyDiffTempDir(p) ==
  /\ pc[p] = "a_tempdir"
  /\ \E o \in {"ok", "failed"} :
       IF o = "ok" /\ dirs[call[p].id]
       THEN /\ tmp' = [tmp EXCEPT ![p] = EmptyDir]
            /\ call' = [call EXCEPT ![p].done = {}]
            /\ Goto(p, "a_copy")
       ELSE /\ CustomReturn(p, "a_tempdir", Err, 0, "failed")
            /\ UNCHANGED tmp
  /\ UNCHANGED <<serial, dirs, root, mnt, mounts, active, lock, hist>>

\* A failing ApplyDiff that leaves its temporary directory.
TmpKept(p) == tmp

\* The deferred os.RemoveAll(tmpRootDir) of a failing ApplyDiff.
TmpRemoved(p) == [tmp EXCEPT ![p] = NoDir]

\* A failure return of Driver.ApplyDiff after the defer: (0, err).
ApplyDiffFail(p, step, sys) ==
  /\ tmp' = TmpRemoved(p)
  /\ CustomReturn(p, step, Err, 0, sys)
  /\ UNCHANGED <<serial, dirs, root, mnt, mounts, active, lock, hist>>

\* copyDir(parentRootDir, tmpRootDir, copyHardlink)
ApplyDiffCopy(p) ==
  /\ pc[p] = "a_copy"
  /\ LET src == root[call[p].parent]
         dst == tmp[p]
     IN \E o \in {"ok", "failed"} :
          IF o = "ok" /\ src.exists /\ dst.exists
          THEN IF CopyTodo(src, call[p].done) = {}
               THEN /\ Goto(p, "a_extract")
                    /\ UNCHANGED <<serial, fsVars, active, lock, hist, call>>
               ELSE \E f \in CopyTodo(src, call[p].done) :
                      IF f \in Names(dst)
                      THEN ApplyDiffFail(p, "a_copy", "eexist")
                      ELSE /\ tmp' = [tmp EXCEPT ![p] = Hardlink(src, dst, f)]
                           /\ call' = [call EXCEPT ![p].done = @ \cup {f}]
                           /\ Goto(p, "a_copy")
                           /\ UNCHANGED <<serial, dirs, root, mnt, mounts, active,
                                          lock, hist>>
          ELSE ApplyDiffFail(p, "a_copy", "failed")

\* chrootarchive.ApplyUncompressedLayer(tmpRootDir, diff, options)
ApplyDiffExtract(p) ==
  /\ pc[p] = "a_extract"
  /\ \E o \in {"ok", "failed"} :
       IF o = "ok" /\ tmp[p].exists
       THEN /\ tmp' = [tmp EXCEPT ![p] = ApplyLayer(@, call[p].diff)]
            /\ call' = [call EXCEPT ![p].size = DiffSize(call[p].diff)]
            /\ Goto(p, "a_rename")
            /\ UNCHANGED <<serial, dirs, root, mnt, mounts, active, lock, hist>>
       ELSE ApplyDiffFail(p, "a_extract", "failed")

\* os.Rename of directory old onto path new: old must exist (ENOENT); a new
\* that is a directory with entries is refused (ENOTEMPTY); an empty directory
\* is replaced by rename(2), and refused (EEXIST) by the os.Rename of Go
\* releases that look at newname first.
Rename(old, newParent, new) ==
  IF ~old.exists \/ ~newParent THEN {"enoent"}
  ELSE IF new.exists /\ new.files # {} THEN {"enotempty"}
  ELSE IF new.exists THEN {"ok", "eexist"}
  ELSE {"ok"}

\* A successful ApplyDiff that leaves mnt/ where it is.
MntKept(id) == mnt

\* The deferred os.RemoveAll(dir/mnt) of a successful ApplyDiff; a live mount
\* point stays (EBUSY, ignored).
MntRemoved(id) == IF mounts[id] = << >> THEN [mnt EXCEPT ![id] = FALSE] ELSE mnt

\* os.Rename(tmpRootDir, rootDir), and the return of Driver.ApplyDiff.
ApplyDiffRename(p) ==
  /\ pc[p] = "a_rename"
  /\ LET id == call[p].id IN
     \E o \in Rename(tmp[p], dirs[id], root[id]) \cup {"failed"} :
       IF o = "ok"
       THEN /\ root' = [root EXCEPT ![id] = tmp[p]]
            /\ tmp' = [tmp EXCEPT ![p] = NoDir]
            /\ mnt' = MntRemoved(id)
            /\ CustomReturn(p, "a_rename", Nil, call[p].size, "ok")
            /\ UNCHANGED <<serial, dirs, mounts, active, lock, hist>>
       ELSE ApplyDiffFail(p, "a_rename", o)

\* Any error of the custom ApplyDiff taken for the sentinel.
DelegatesAnyError(err) == err # Nil

\* err == ErrApplyDiffFallback
Delegates(err) == err = ErrApplyDiffFallback

\* return b, err
WrapperResult(b, err) == [size |-> b, err |-> err]

\* The rest of naiveDiffDriverWithApply.ApplyDiff.  On the sentinel,
\* d.Driver.ApplyDiff(id, parent, diff): the generic driver extracts the diff
\* into the layer's root in place, and its result is the wrapper's.
Wrapper(p) ==
  /\ pc[p] = "w_check"
  /\ LET id == call[p].id
         c == call[p]
     IN IF Delegates(c.customErr)
        THEN \E o \in {"ok", "partial", "failed"} :
               LET done == o = "ok" /\ root[id].exists
                   gErr == IF done THEN Nil ELSE Err
                   gSize == IF done THEN DiffSize(c.diff) ELSE 0
               IN /\ root' = [root EXCEPT ![id] =
                                IF ~@.exists \/ o = "failed" THEN @
                                ELSE IF o = "ok" THEN ApplyLayer(@, c.diff)
                                ELSE ApplyLayerPartly(@, c.diff)]
                  /\ Finish(p, [RetOf(p, "w_generic", gErr, << >>, gSize, o)
                                  EXCEPT !.generic = 1, !.gErr = gErr, !.gSize = gSize])
        ELSE /\ Return(p, c.step, WrapperResult(c.size, c.customErr).err, << >>,
                       WrapperResult(c.size, c.customErr).size, c.sys)
             /\ UNCHANGED root
  /\ UNCHANGED <<serial, dirs, mnt, tmp, mounts, active, lock, hist>>

\* ------------------------------------------------------------- the spec --
Next ==
  \E p \in Procs :
    \/ \E id \in Ids, parent \in Ids \cup {""} : CallCreate(p, id, parent)
    \/ CreateHome(p)
    \/ CreateMkdir(p)
    \/ CreateBaseRoot(p)
    \/ CreateLstatParent(p)
    \/ CreateLstatParentRoot(p)
    \/ CreateMkRoot(p)
    \/ CreateMkMnt(p)
    \/ CreateCopy(p)
    \/ \E id \in Ids : CallRemove(p, id)
    \/ Remove(p)
    \/ \E id \in Ids, label \in Labels : CallGet(p, id, label)
    \/ GetLock(p)
    \/ GetLookup(p)
    \/ GetStatDir(p)
    \/ GetStatRoot(p)
    \/ GetStatMnt(p)
    \/ GetMount(p)
    \/ \E id \in Ids : CallPut(p, id)
    \/ PutLock(p)
    \/ PutLookup(p)
    \/ PutExists(p)
    \/ PutExistsMnt(p)
    \/ PutRelease(p)
    \/ \E id \in Ids, parent \in Ids \cup {""}, diff \in Diffs :
         CallApplyDiff(p, id, parent, diff)
    \/ ApplyDiffParent(p)
    \/ ApplyDiffTempDir(p)
    \/ ApplyDiffCopy(p)
    \/ ApplyDiffExtract(p)
    \/ ApplyDiffRename(p)
    \/ Wrapper(p)

\* The calls come one at a time.
Spec == Init /\ [][Next]_vars

\* The callers interleave.
SpecConc == InitConc /\ [][Next]_vars

\* The steps of caller p inside Get and Put, the wait for the mutex included.
GetPutStep(p) ==
  \/ GetLock(p) \/ GetLookup(p) \/ GetStatDir(p) \/ GetStatRoot(p)
  \/ GetStatMnt(p) \/ GetMount(p)
  \/ PutLock(p) \/ PutLookup(p) \/ PutExists(p) \/ PutExistsMnt(p)
  \/ PutRelease(p)

\* The callers interleave and the scheduler is fair to each goroutine: a
\* caller that can take a step of Get or Put, the sync.Mutex once it is
\* free included, takes it in the end.
SpecFair ==
  InitConc /\ [][Next]_vars /\ \A p \in Procs : WF_vars(GetPutStep(p))

TypeOK ==
  /\ serial \in BOOLEAN
  /\ dirs \in [Ids -> BOOLEAN]
  /\ mnt \in [Ids -> BOOLEAN]
  /\ \A i \in Ids : root[i].exists \in BOOLEAN /\ root[i].files \subseteq Files \X Inodes
  /\ \A p \in Procs : tmp[p].files \subseteq Files \X Inodes
  /\ \A i \in Ids : Len(mounts[i]) <= MaxCalls
  /\ \A i \in Ids : active[i].count \in 0..MaxCalls
  /\ calls \in 0..MaxCalls
  /\ lock \in Procs \cup {NoProc}

\* ------------------------------------------------------------ the claims -
GetPutSteps == {"g_lookup", "g_statdir", "g_statroot", "g_statmnt", "g_mount",
                "p_lookup", "p_exists", "p_exists_mnt", "p_release"}
ApplyDiffSteps == {"a_parent", "a_tempdir", "a_copy", "a_extract", "a_rename"}
CreateSteps == {"c_mkdir", "c_baseroot", "c_lstat_parent", "c_lstat_parentroot",
                "c_mkroot", "c_mkmnt", "c_copy"}

NoGetPutRunning(id) ==
  \A p \in Procs : call[p].id = id => call[p].op \notin {"Get", "Put"}

\* Caller p's Get returns in this step.
GetReturns(p) == call[p].op = "Get" /\ pc[p] # "idle" /\ pc'[p] = "idle"

\* C1 as stated: whenever the Puts of id have caught up with its (at least
\* one) successful Gets without ever exceeding them, the table holds no record
\* for id, and if a Get bind-mounted the layer then exactly one unmount has
\* been issued for it by the Puts, the last one.
C1_RefcountLawAsStated ==
  \A id \in Ids :
    (NoGetPutRunning(id) /\ ~hist[id].over /\ hist[id].gets > 0 /\ hist[id].bal = 0)
      => /\ ~active[id].present
         /\ hist[id].wasMounted => hist[id].unm = 1

\* C1, amended: for N successful Gets and N Puts of id in which the Puts stay
\* strictly below the Gets until the Nth Put: while Gets are outstanding the
\* record is there with their number as its count, its mount is live and no
\* Put has issued an unmount; after the Nth Put the table holds no record
\* for id and, if the layer was bind-mounted, exactly one unmount was issued.
C1_RefcountLaw ==
  \A id \in Ids :
    (NoGetPutRunning(id) /\ ~hist[id].over /\ ~hist[id].rebal)
      => /\ hist[id].bal > 0 =>
              /\ active[id].present
              /\ active[id].count = hist[id].bal
              /\ hist[id].unm = 0
              /\ active[id].mounted => mounts[id] # << >>
         /\ (hist[id].gets > 0 /\ hist[id].bal = 0) =>
              /\ ~active[id].present
              /\ hist[id].unm = (IF hist[id].wasMounted THEN 1 ELSE 0)

\* Two Gets and two Puts of a bind-mounted layer, the count positive until
\* the second Put.
C1_Witness ==
  \E id \in Ids :
    /\ NoGetPutRunning(id)
    /\ hist[id].gets = 2 /\ hist[id].bal = 0
    /\ ~hist[id].over /\ ~hist[id].rebal
    /\ hist[id].wasMounted /\ hist[id].unm = 1
    /\ ~active[id].present

\* C2: Put never returns an error: with or without a record, on a release
\* that leaves the count positive, on the final release of a base layer or of
\* a bind-mounted one, whether the unmount succeeds or fails.
C2_PutNeverFails == lastRet.op = "Put" => lastRet.err = Nil

\* C3: a Get that returns an error leaves the table of active mounts as the
\* call found it.
C3_FailedGetKeepsTable ==
  [][\A p \in Procs :
       (GetReturns(p) /\ lastRet'.err # Nil /\ snap[p].taken)
         => active' = snap[p].active]_vars

\* A Get whose bind mount failed, while another layer has a record.
C3_Witness ==
  /\ lastRet.op = "Get" /\ lastRet.err # Nil /\ lastRet.step = "g_mount"
  /\ \E i \in Ids : active[i].present

\* C4: when the driver's ApplyDiff returns an error other than the sentinel,
\* root/ is what the call found, mnt/ is still as the call found it, and the
\* call's temporary directory is gone.
C4_ApplyDiffFailureAtomic ==
  [][\A p \in Procs :
       (/\ pc[p] \in ApplyDiffSteps /\ pc'[p] = "w_check"
        /\ call'[p].customErr = Err /\ snap[p].taken)
         => /\ root'[call[p].id] = snap[p].root
            /\ mnt'[call[p].id] = snap[p].mnt
            /\ tmp'[p] = NoDir]_vars

\* An ApplyDiff that failed in the extraction, on a layer with a populated
\* root and a mnt/.
C4_Witness ==
  /\ lastRet.op = "ApplyDiff" /\ lastRet.cErr = Err /\ lastRet.step = "a_extract"
  /\ root[lastRet.id].files # {}
  /\ mnt[lastRet.id]

\* C5: for a child layer as Create leaves it (root/ and mnt/ there, root/
\* holding the copy of the parent's), an ApplyDiff that reaches the rename and
\* meets no input/output failure there commits: it returns nil with the byte
\* count of the extraction, and root/ holds the parent's content with the diff
\* applied.
C5_ApplyDiffCommits ==
  [][\A p \in Procs :
       (/\ pc[p] = "a_rename" /\ pc'[p] = "w_check"
        /\ call'[p].sys # "failed"
        /\ call[p].id # call[p].parent
        /\ snap[p].taken /\ snap[p].root.exists /\ snap[p].mnt
        /\ Names(snap[p].root) = Names(root[call[p].parent]))
         => /\ call'[p].customErr = Nil
            /\ call'[p].size = DiffSize(call[p].diff)
            /\ Names(root'[call[p].id])
                 = (Names(root[call[p].parent]) \ call[p].diff.del) \cup call[p].diff.add]_vars

\* C6: with parent "" or without home/<parent>/root, the driver's ApplyDiff
\* returns (0, ErrApplyDiffFallback) and changes neither the file system nor
\* the table of active mounts.
C6_Fallback ==
  [][\A p \in Procs :
       (/\ pc[p] = "a_parent" /\ pc'[p] # "a_parent"
        /\ (call[p].parent = "" \/ ~root[call[p].parent].exists))
         => /\ pc'[p] = "w_check"
            /\ call'[p].customErr = ErrApplyDiffFallback
            /\ call'[p].size = 0
            /\ UNCHANGED <<dirs, root, mnt, tmp, mounts, active>>]_vars

\* The sentinel returned for a parent that is named but has no root, on a
\* layer that exists.
C6_Witness ==
  \E p \in Procs :
    /\ pc[p] = "w_check" /\ call[p].customErr = ErrApplyDiffFallback
    /\ call[p].parent # ""
    /\ dirs[call[p].id]

\* C7: the wrapper calls the custom ApplyDiff once; it calls the generic one,
\* once, exactly when the custom one returned the sentinel, and then returns
\* the generic result; otherwise it returns the custom (size, error).
C7_Wrapper ==
  lastRet.op = "ApplyDiff" =>
    /\ lastRet.custom = 1
    /\ lastRet.generic = (IF lastRet.cErr = ErrApplyDiffFallback THEN 1 ELSE 0)
    /\ lastRet.generic = 1 => lastRet.err = lastRet.gErr /\ lastRet.size = lastRet.gSize
    /\ lastRet.generic = 0 => lastRet.err = lastRet.cErr /\ lastRet.size = lastRet.cSize

\* The generic ApplyDiff called after the sentinel, and succeeding.
C7_Witness ==
  /\ lastRet.op = "ApplyDiff" /\ lastRet.cErr = ErrApplyDiffFallback
  /\ lastRet.generic = 1 /\ lastRet.err = Nil /\ lastRet.size = 1

\* C8: when Create(id, parent) of a layer that was not there returns an error
\* from one of its steps after the home directory's, home/<id>/ is absent.
C8_CreateCleanup ==
  (/\ lastRet.op = "Create" /\ lastRet.err # Nil
   /\ lastRet.step \in CreateSteps /\ ~lastRet.hadDir)
    => ~dirs[lastRet.id]

\* C9 as stated: whenever Get(id) returns a path, home/<id>/root exists and no
\* Create is filling it.
C9_ExposureAsStated ==
  [][\A p \in Procs :
       (GetReturns(p) /\ lastRet'.err = Nil)
         => /\ root'[call[p].id].exists
            /\ \A q \in Procs :
                 ~(/\ call'[q].op = "Create" /\ call'[q].id = call[p].id
                   /\ pc'[q] \in {"c_mkmnt", "c_copy"})]_vars

\* C9, amended: when Get(id) finds no record, and no Create, ApplyDiff or
\* Remove of id runs at any time during the Get, then as Get returns a path
\* home/<id>/root exists and no Create is filling it.
C9_Exposure ==
  [][\A p \in Procs :
       (/\ GetReturns(p) /\ lastRet'.err = Nil
        /\ pc[p] \in {"g_statmnt", "g_mount"} /\ ~call[p].overlap)
         => /\ root'[call[p].id].exists
            /\ \A q \in Procs :
                 ~(/\ call'[q].op = "Create" /\ call'[q].id = call[p].id
                   /\ pc'[q] \in {"c_mkmnt", "c_copy"})]_vars

\* A Get that mounted a populated root while another caller's call was under
\* way, none of them on the layer.
C9_Witness ==
  /\ lastRet.op = "Get" /\ lastRet.err = Nil /\ lastRet.step = "g_mount"
  /\ ~lastRet.overlap
  /\ root[lastRet.id].files # {}
  /\ \E q \in Procs : pc[q] \notin {"idle", "g_lock", "p_lock"}

\* C10: a caller inside the body of Get or Put holds the lock, so at most one
\* is; the table of active mounts and the mounts change only in a step of the
\* caller that holds the lock.
C10_MutualExclusion ==
  /\ [](\A p \in Procs : pc[p] \in GetPutSteps => lock = p)
  /\ [][(active' # active \/ mounts' # mounts)
          => (/\ lock \in Procs
              /\ pc[lock] \in GetPutSteps
              /\ pc'[lock] # pc[lock])]_vars

\* One caller inside Get or Put, the other waiting for the lock.
C10_Witness ==
  \E p, q \in Procs :
    /\ pc[p] \in GetPutSteps /\ lock = p
    /\ pc[q] \in {"g_lock", "p_lock"}

BaseRec(id) == [present |-> TRUE, count |-> 1, path |-> RootDir(id), mounted |-> FALSE]

Removed(id) ==
  /\ root[id] = NoDir
  /\ mounts[id] = << >> => ~dirs[id] /\ ~mnt[id]

\* C13: Remove(id) of an id whose directory is absent returns nil and changes
\* nothing; what a Remove leaves is a state in which another Remove returns
\* the same result and changes nothing; a Put(id) that finds no record for id
\* returns nil and leaves the table of active mounts as it was.
C13_Idempotence ==
  /\ [](lastRet.op = "Remove" =>
          /\ Removed(lastRet.id)
          /\ lastRet.err = Nil <=> ~dirs[lastRet.id])
  /\ [][\A p \in Procs :
          /\ (pc[p] = "r_removeall" /\ pc'[p] = "idle" /\ ~dirs[call[p].id])
               => /\ lastRet'.err = Nil
                  /\ UNCHANGED <<dirs, root, mnt, tmp, mounts, active>>
          /\ (pc[p] = "r_removeall" /\ pc'[p] = "idle" /\ Removed(call[p].id))
               => /\ lastRet'.err = (IF dirs[call[p].id] THEN Err ELSE Nil)
                  /\ UNCHANGED <<dirs, root, mnt, tmp, mounts, active>>
          /\ (pc[p] \in {"p_exists", "p_exists_mnt"} /\ pc'[p] = "idle")
               => /\ lastRet'.err = Nil
                  /\ active' = active
                  /\ snap[p].taken => active' = snap[p].active]_vars

\* A second Remove of a layer, returning nil beside a layer that stays.
C13_Witness ==
  /\ lastRet.op = "Remove" /\ ~lastRet.hadDir /\ lastRet.err = Nil
  /\ calls >= 2
  /\ \E j \in Ids \ {lastRet.id} : dirs[j] /\ root[j].files # {}

\* C14: a Put(id) that finds no record for id while home/<id>/mnt exists and
\* is still bind-mounted issues an unmount of home/<id>/mnt, and returns nil
\* whether or not the unmount succeeds.
C14_PutReleasesLeftoverMount ==
  [][\A p \in Procs :
       (/\ call[p].op = "Put" /\ pc[p] \in {"p_exists", "p_exists_mnt"}
        /\ pc'[p] = "idle"
        /\ mnt[call[p].id] /\ mounts[call[p].id] # << >>)
         => /\ lastRet'.sys \in {"ok", "ebusy"}
            /\ lastRet'.err = Nil]_vars

\* C15: every record of the table of active mounts is either mounted, with
\* path home/<id>/mnt, that directory existing and a bind mount live on it, or
\* not mounted, with path home/<id>/root and no mount on home/<id>/mnt.
C15_MountedFlag ==
  \A id \in Ids :
    active[id].present =>
      /\ active[id].path \in {MntDir(id), RootDir(id)}
      /\ active[id].mounted <=> active[id].path = MntDir(id)
      /\ active[id].mounted => mnt[id] /\ mounts[id] # << >>
      /\ ~active[id].mounted => mounts[id] = << >>

\* A bind-mounted layer and a base layer held at the same time.
C15_Witness ==
  /\ lock = NoProc
  /\ \E i, j \in Ids :
       /\ active[i].present /\ active[i].mounted
       /\ active[j].present /\ ~active[j].mounted

\* C16: a Get(id, label) that finds a record for id, whatever the label,
\* returns from the look at the table, before any check of the file system:
\* it returns the record's path and nil, adds exactly 1 to the record's count,
\* leaves its path and mounted flag and every other record as they were, and
\* changes neither the mounts nor the directories.
C16_RepeatedGet ==
  [][\A p \in Procs :
       (/\ call[p].op = "Get" /\ pc[p] = "g_lookup" /\ pc'[p] # "g_lookup"
        /\ active[call[p].id].present)
         => /\ pc'[p] = "idle"
            /\ lastRet'.step = "g_lookup"
            /\ lastRet'.err = Nil
            /\ lastRet'.path = active[call[p].id].path
            /\ active' = [active EXCEPT ![call[p].id].count = @ + 1]
            /\ UNCHANGED <<dirs, root, mnt, tmp, mounts>>]_vars

\* A second Get of a bind-mounted layer: the count is 2 and one mount is live.
C16_Witness ==
  /\ lastRet.op = "Get" /\ lastRet.step = "g_lookup" /\ lastRet.err = Nil
  /\ active[lastRet.id].count = 2 /\ active[lastRet.id].mounted
  /\ lastRet.path = MntDir(lastRet.id)
  /\ Len(mounts[lastRet.id]) = 1

\* C17 as stated: when the driver's ApplyDiff(id, parent, diff) returns nil,
\* home/<id>/mnt is gone; and a Get(id) that is the next call, finding no
\* record for id, issues no mount, returns home/<id>/root and stores a record
\* that is not mounted.
C17_GetAfterApplyDiffAsStated ==
  [][\A p \in Procs :
       /\ (pc[p] = "a_rename" /\ pc'[p] = "w_check" /\ call'[p].customErr = Nil)
            => ~mnt'[call[p].id]
       /\ (/\ GetReturns(p) /\ call[p].afterApply
           /\ snap[p].taken /\ ~snap[p].active[call[p].id].present)
            => /\ lastRet'.err = Nil
               /\ lastRet'.step = "g_statmnt"
               /\ lastRet'.path = RootDir(call[p].id)
               /\ mounts' = mounts
               /\ active' = [active EXCEPT ![call[p].id] = BaseRec(call[p].id)]]_vars

\* C17, amended: the same when no bind mount is live on home/<id>/mnt as the
\* driver's ApplyDiff returns nil; a mount point that is in use stays, and the
\* next Get without a record mounts on it again.
C17_GetAfterApplyDiff ==
  [][\A p \in Procs :
       /\ (/\ pc[p] = "a_rename" /\ pc'[p] = "w_check" /\ call'[p].customErr = Nil
           /\ mounts[call[p].id] = << >>)
            => ~mnt'[call[p].id]
       /\ (/\ GetReturns(p) /\ call[p].afterApply
           /\ snap[p].taken /\ ~snap[p].active[call[p].id].present
           /\ mounts[call[p].id] = << >>)
            => /\ lastRet'.err = Nil
               /\ lastRet'.step = "g_statmnt"
               /\ lastRet'.path = RootDir(call[p].id)
               /\ mounts' = mounts
               /\ active' = [active EXCEPT ![call[p].id] = BaseRec(call[p].id)]]_vars

\* A Get right after a committed ApplyDiff: the layer's root holds the diff's
\* file, mnt/ is gone and the record is that of a base layer.
C17_Witness ==
  /\ lastRet.op = "Get" /\ lastRet.afterApply /\ lastRet.err = Nil
  /\ lastRet.step = "g_statmnt"
  /\ active[lastRet.id] = BaseRec(lastRet.id)
  /\ root[lastRet.id].files # {}
  /\ ~mnt[lastRet.id]

\* C18: while no Get or Put holds the lock, every record in the table of
\* active mounts has a count of at least 1, equal to the successful Gets of
\* its id less the Puts of its id since the record was stored.
C18_CountInvariant ==
  lock = NoProc =>
    \A id \in Ids :
      active[id].present =>
        /\ active[id].count >= 1
        /\ active[id].count = hist[id].held

\* A record with count 2, stored after a Put that found no record: the Puts
\* before the record do not count.
C18_Witness ==
  /\ lock = NoProc
  /\ \E id \in Ids :
       /\ active[id].present /\ active[id].count = 2
       /\ hist[id].held = 2 /\ hist[id].over

\* C19: under a fair scheduler every Get and every Put returns in the end,
\* a caller waiting for the lock included, and the step on which a Get or a
\* Put returns, with or without an error, leaves the lock free.
C19_GetPutComplete ==
  /\ \A p \in Procs :
       (call[p].op \in {"Get", "Put"} /\ pc[p] # "idle") ~> (pc[p] = "idle")
  /\ [][\A p \in Procs :
          (call[p].op \in {"Get", "Put"} /\ pc[p] # "idle" /\ pc'[p] = "idle")
            => (lock = p /\ lock' = NoProc)]_vars

\* A Get or a Put has returned an error, the lock is free and the other
\* caller is waiting for it.
C19_Witness ==
  /\ lastRet.op \in {"Get", "Put"} /\ lastRet.err = Err
  /\ lock = NoProc
  /\ \E q \in Procs : pc[q] \in {"g_lock", "p_lock"}

\* C20: Get never bind-mounts onto a home/<id>/mnt that still carries the
\* mount of an earlier Get, so at most one bind mount is live on it at any
\* time, whether or not the unmounts of the Puts in between failed.
C20_NoStackedMounts ==
  /\ [](\A id \in Ids : Len(mounts[id]) <= 1)
  /\ [][\A id \in Ids :
          Len(mounts'[id]) > Len(mounts[id]) => mounts[id] = << >>]_vars

=============================================================================
